---- MODULE Spec2Model ----
(***************************************************************************)
(* pretty-name: type_name (src/src/type_name.rs).                          *)
(*                                                                         *)
(* Two specifications share this module.                                   *)
(*   SpecCanon  the canonicalizer truncate_type / truncate_path as a pure  *)
(*              function on syn type trees: Init draws the input tree from *)
(*              a bounded set, the action Truncate applies truncate_type.  *)
(*   Spec       the public entry point type_name with its thread-local     *)
(*              cache, one table per execution context, calling            *)
(*              type_name_internal (parse, truncate, format, strip).       *)
(***************************************************************************)
EXTENDS Integers, Sequences, FiniteSets, TLC

VARIABLES
    ty,        \* SpecCanon: the tree handed to truncate_type (`ty: &mut Type` before the call)
    out,       \* SpecCanon: the same tree after truncate_type returned
    phase,     \* SpecCanon: "input" before the call, "done" after it
    cache,     \* Spec: TYPE_NAME_CACHE of every context, a map TypeId -> string reference
    heap,      \* Spec: the strings leaked by Box::leak, heap[r] is the text at reference r
    pc,        \* Spec: per context, "idle" or "internal" (inside the Vacant arm)
    cur,       \* Spec: per context, the TypeId of the lookup in progress
    eol,       \* Spec: the line terminator the formatter of this platform emits
    runs,      \* Spec: per context and TypeId, how often type_name_internal was entered
    returned,  \* Spec: per context and TypeId, the references type_name has returned
    last       \* Spec: the outcome of the lookup that finished most recently

vars == <<ty, out, phase, cache, heap, pc, cur, eol, runs, returned, last>>

-----------------------------------------------------------------------------
(* Bounds of the model.                                                    *)

\* Nesting depth of the generated input trees (wrappers around a leaf).
MaxDepth == 2

\* How many lookups may end in a panic (the formatter fails that often at most).
MaxPanics == 2

-----------------------------------------------------------------------------
(* syn's type trees, as far as truncate_type / truncate_path look at them. *)
(* A node is a record whose `kind` is the name of the syn enum variant.    *)

NoLifetime == "none"
NoArguments == [kind |-> "None"]
NoQSelf == [kind |-> "None"]
DefaultReturn == [kind |-> "Default"]

Segment(ident, arguments) == [ident |-> ident, arguments |-> arguments]
Path(leading_colon, segments) == [leading_colon |-> leading_colon, segments |-> segments]
TypePath(qself, path) == [kind |-> "Path", qself |-> qself, path |-> path]
QSelf(t, position) == [kind |-> "Some", ty |-> t, position |-> position]
AngleBracketed(args) == [kind |-> "AngleBracketed", args |-> args]
Parenthesized(inputs, output) ==
    [kind |-> "Parenthesized", inputs |-> inputs, output |-> output]
ReturnType(t) == [kind |-> "Type", ty |-> t]
ArgType(t) == [kind |-> "Type", ty |-> t]
ArgAssocType(ident, t) == [kind |-> "AssocType", ident |-> ident, ty |-> t]
ArgLifetime(lt) == [kind |-> "Lifetime", lifetime |-> lt]
ArgConst(expr) == [kind |-> "Const", expr |-> expr]
BoundTrait(path) == [kind |-> "Trait", path |-> path]
BoundLifetime(lt) == [kind |-> "Lifetime", lifetime |-> lt]
BareFnArg(t) == [ty |-> t]

TypeInfer == [kind |-> "Infer"]
TypeNever == [kind |-> "Never"]
TypeMacro == [kind |-> "Macro", tokens |-> "m!()"]
TypeVerbatim == [kind |-> "Verbatim", tokens |-> "{{closure}}"]
TypeOther == [kind |-> "Other", tokens |-> "?"]
TypeArray(elem, len) == [kind |-> "Array", elem |-> elem, len |-> len]
TypeGroup(elem) == [kind |-> "Group", elem |-> elem]
TypeParen(elem) == [kind |-> "Paren", elem |-> elem]
TypePtr(mutability, elem) == [kind |-> "Ptr", mutability |-> mutability, elem |-> elem]
TypeSlice(elem) == [kind |-> "Slice", elem |-> elem]
TypeReference(lifetime, mutability, elem) ==
    [kind |-> "Reference", lifetime |-> lifetime, mutability |-> mutability, elem |-> elem]
TypeBareFn(unsafety, abi, inputs, output) ==
    [kind |-> "BareFn", unsafety |-> unsafety, abi |-> abi,
     inputs |-> inputs, output |-> output]
TypeImplTrait(bounds) == [kind |-> "ImplTrait", bounds |-> bounds]
TypeTraitObject(bounds) == [kind |-> "TraitObject", bounds |-> bounds]
TypeTuple(elems) == [kind |-> "Tuple", elems |-> elems]

\* A plain path type `a::b::C` without generic arguments.
Plain(leading_colon, idents) ==
    TypePath(NoQSelf,
             Path(leading_colon, [i \in DOMAIN idents |-> Segment(idents[i], NoArguments)]))

-----------------------------------------------------------------------------
(* The canonicalizer.                                                      *)

RECURSIVE truncate_type(_)
RECURSIVE truncate_path(_)

\* for arg in args.args.iter_mut() { match *arg { Type | AssocType => truncate_type, _ => {} } }
truncate_generic_argument(arg) ==
    IF arg.kind \in {"Type", "AssocType"}
    THEN [arg EXCEPT !.ty = truncate_type(@)]
    ELSE arg

\* if let ReturnType::Type(_, ref mut ty) = output { truncate_type(ty) }
truncate_return(output) ==
    IF output.kind = "Type" THEN [output EXCEPT !.ty = truncate_type(@)] ELSE output

\* Mutant of truncate_arguments: the arguments that are no types (lifetimes,
\* constants) are dropped from an angle-bracketed list.
truncate_arguments_types_only(arguments) ==
    CASE arguments.kind = "None" -> arguments
      [] arguments.kind = "AngleBracketed" ->
            [arguments EXCEPT !.args =
                LET IsType(arg) == arg.kind \in {"Type", "AssocType"}
                    types == SelectSeq(@, IsType)
                IN  [i \in DOMAIN types |-> truncate_generic_argument(types[i])]]
      [] arguments.kind = "Parenthesized" ->
            [arguments EXCEPT !.inputs = [i \in DOMAIN @ |-> truncate_type(@[i])],
                              !.output = truncate_return(@)]

\* match last_segment.arguments { None | AngleBracketed | Parenthesized }
truncate_arguments(arguments) ==
    CASE arguments.kind = "None" -> arguments
      [] arguments.kind = "AngleBracketed" ->
            [arguments EXCEPT !.args =
                [i \in DOMAIN @ |-> truncate_generic_argument(@[i])]]
      [] arguments.kind = "Parenthesized" ->
            [arguments EXCEPT !.inputs = [i \in DOMAIN @ |-> truncate_type(@[i])],
                              !.output = truncate_return(@)]

\* Mutant of truncate_path: a path without segments is returned as it came (the
\* early return without the reset of leading_colon and segments).
truncate_path_keep_root(path) ==
    IF path.segments = <<>>
    THEN path
    ELSE LET last_segment == path.segments[Len(path.segments)]
         IN  Path(FALSE,
                  << [last_segment EXCEPT !.arguments = truncate_arguments(@)] >>)

\* path.segments.into_iter().last(), its arguments truncated, as the only segment
truncate_path(path) ==
    IF path.segments = <<>>
    THEN Path(FALSE, <<>>)
    ELSE LET last_segment == path.segments[Len(path.segments)]
         IN  Path(FALSE,
                  << [last_segment EXCEPT !.arguments = truncate_arguments(@)] >>)

\* Mutant of truncate_bounds: only the first bound (the primary trait) is truncated.
truncate_bounds_primary_only(bounds) ==
    [i \in DOMAIN bounds |->
        IF bounds[i].kind = "Trait" /\ i = 1
        THEN [bounds[i] EXCEPT !.path = truncate_path(@)]
        ELSE bounds[i]]

\* for bound in ty.bounds.iter_mut() { if let TypeParamBound::Trait(trt) = bound { ... } }
truncate_bounds(bounds) ==
    [i \in DOMAIN bounds |->
        IF bounds[i].kind = "Trait"
        THEN [bounds[i] EXCEPT !.path = truncate_path(@)]
        ELSE bounds[i]]

\* Mutant of truncate_reference: the reference is rebuilt as a shared one, its
\* mutability is lost together with the lifetime.
truncate_reference_shared(t) ==
    [t EXCEPT !.lifetime = NoLifetime, !.mutability = FALSE, !.elem = truncate_type(@)]

\* Type::Reference: *lifetime = None; truncate_type(elem)
truncate_reference(t) ==
    [t EXCEPT !.lifetime = NoLifetime, !.elem = truncate_type(@)]

\* Type::BareFn: every input's type, then the return type
truncate_bare_fn_arg(input) == [input EXCEPT !.ty = truncate_type(@)]

truncate_bare_fn(t) ==
    [t EXCEPT !.inputs = [i \in DOMAIN @ |-> truncate_bare_fn_arg(@[i])],
              !.output = truncate_return(@)]

\* Type::Tuple: every element
truncate_tuple(t) ==
    [t EXCEPT !.elems = [i \in DOMAIN @ |-> truncate_type(@[i])]]

truncate_type(t) ==
    CASE t.kind \in {"Infer", "Macro", "Never", "Verbatim"} -> t
      [] t.kind \in {"Array", "Group", "Paren", "Ptr", "Slice"} ->
            [t EXCEPT !.elem = truncate_type(@)]
      [] t.kind = "Reference" -> truncate_reference(t)
      [] t.kind = "Path" -> [t EXCEPT !.path = truncate_path(@)]
      [] t.kind = "BareFn" -> truncate_bare_fn(t)
      [] t.kind \in {"ImplTrait", "TraitObject"} ->
            [t EXCEPT !.bounds = truncate_bounds(@)]
      [] t.kind = "Tuple" -> truncate_tuple(t)
      [] OTHER -> t

-----------------------------------------------------------------------------
(* The input trees of SpecCanon: a leaf, wrapped MaxDepth times at most.   *)
(* Every syn position the canonicalizer distinguishes occurs as a wrapper. *)

Leaves ==
    { TypeInfer, TypeNever, TypeMacro, TypeVerbatim, TypeOther,
      Plain(FALSE, <<"i32">>),
      Plain(FALSE, <<"a", "B">>),
      Plain(TRUE, <<"a", "b", "C">>),
      TypePath(NoQSelf, Path(FALSE, <<>>)),
      TypePath(NoQSelf, Path(TRUE, <<>>)),
      TypeTuple(<<>>),
      TypeBareFn(FALSE, "", <<>>, DefaultReturn),
      TypeReference("a", FALSE, Plain(FALSE, <<"a", "B">>)),
      TypeTraitObject(<< BoundTrait(Path(FALSE, <<Segment("a", NoArguments),
                                                   Segment("Tr", NoArguments)>>)),
                         BoundLifetime("l"),
                         BoundTrait(Path(TRUE, <<Segment("b", NoArguments),
                                                  Segment("m", NoArguments),
                                                  Segment("Send", NoArguments)>>)) >>) }

Wrappers ==
    { "Array", "Group", "Paren", "PtrConst", "PtrMut", "Slice",
      "Ref", "RefMut", "RefLt", "TupleFst", "TupleSnd",
      "FnInput", "FnOutput", "GenericType", "GenericAssoc", "GenericInner",
      "ParenInput", "ParenOutput", "QSelf", "DynBound", "ImplBound" }

AB == Plain(FALSE, <<"a", "B">>)

Wrap(w, h) ==
    CASE w = "Array" -> TypeArray(h, "3")
      [] w = "Group" -> TypeGroup(h)
      [] w = "Paren" -> TypeParen(h)
      [] w = "PtrConst" -> TypePtr(FALSE, h)
      [] w = "PtrMut" -> TypePtr(TRUE, h)
      [] w = "Slice" -> TypeSlice(h)
      [] w = "Ref" -> TypeReference(NoLifetime, FALSE, h)
      [] w = "RefMut" -> TypeReference("a", TRUE, h)
      [] w = "RefLt" -> TypeReference("static", FALSE, h)
      [] w = "TupleFst" -> TypeTuple(<<h, AB>>)
      [] w = "TupleSnd" -> TypeTuple(<<Plain(FALSE, <<"i32">>), TypeInfer, h>>)
      [] w = "FnInput" -> TypeBareFn(TRUE, "", <<BareFnArg(h), BareFnArg(AB)>>, DefaultReturn)
      [] w = "FnOutput" -> TypeBareFn(FALSE, "C", <<BareFnArg(AB)>>, ReturnType(h))
      \* a::Vec<h>
      [] w = "GenericType" ->
            TypePath(NoQSelf, Path(FALSE,
                <<Segment("a", NoArguments),
                  Segment("Vec", AngleBracketed(<<ArgType(h)>>))>>))
      \* ::a::Map<'l, a::B, K = h, 3>
      [] w = "GenericAssoc" ->
            TypePath(NoQSelf, Path(TRUE,
                <<Segment("a", NoArguments),
                  Segment("Map", AngleBracketed(<<ArgLifetime("l"), ArgType(AB),
                                                  ArgAssocType("K", h), ArgConst("3")>>))>>))
      \* a::Vec<h>::len
      [] w = "GenericInner" ->
            TypePath(NoQSelf, Path(FALSE,
                <<Segment("a", NoArguments),
                  Segment("Vec", AngleBracketed(<<ArgType(h)>>)),
                  Segment("len", NoArguments)>>))
      \* a::Fn(h, a::B)
      [] w = "ParenInput" ->
            TypePath(NoQSelf, Path(FALSE,
                <<Segment("a", NoArguments),
                  Segment("Fn", Parenthesized(<<h, AB>>, DefaultReturn))>>))
      \* a::Fn(a::B) -> h
      [] w = "ParenOutput" ->
            TypePath(NoQSelf, Path(FALSE,
                <<Segment("a", NoArguments),
                  Segment("Fn", Parenthesized(<<AB>>, ReturnType(h)))>>))
      \* <h as a::Tr>::X
      [] w = "QSelf" ->
            TypePath(QSelf(h, 2), Path(FALSE,
                <<Segment("a", NoArguments), Segment("Tr", NoArguments),
                  Segment("X", NoArguments)>>))
      \* dyn a::Tr<h> + 'l + b::Send
      [] w = "DynBound" ->
            TypeTraitObject(
                <<BoundTrait(Path(FALSE, <<Segment("a", NoArguments),
                                           Segment("Tr", AngleBracketed(<<ArgType(h)>>))>>)),
                  BoundLifetime("l"),
                  BoundTrait(Path(FALSE, <<Segment("b", NoArguments),
                                           Segment("Send", NoArguments)>>))>>)
      \* impl b::Send + a::Tr<h>
      [] w = "ImplBound" ->
            TypeImplTrait(
                <<BoundTrait(Path(TRUE, <<Segment("b", NoArguments),
                                          Segment("Send", NoArguments)>>)),
                  BoundTrait(Path(FALSE, <<Segment("a", NoArguments),
                                           Segment("Tr", AngleBracketed(<<ArgType(h)>>))>>))>>)

RECURSIVE TreesUpTo(_)
TreesUpTo(d) ==
    IF d = 0 THEN Leaves
    ELSE Leaves \cup { Wrap(w, h) : w \in Wrappers, h \in TreesUpTo(d - 1) }

Trees == TreesUpTo(MaxDepth)

-----------------------------------------------------------------------------
(* Text.  A string is the sequence of its bytes, each a one-character      *)
(* string ("CR" and "LF" stand for the bytes 13 and 10), so that len() and *)
(* the byte-range slice of type_name_internal are computed as the code     *)
(* computes them.                                                          *)

\* The bytes of the identifiers and literal tokens that occur in the model's trees.
Chars(s) ==
    CASE s = "alloc" -> <<"a", "l", "l", "o", "c">>
      [] s = "vec" -> <<"v", "e", "c">>
      [] s = "Vec" -> <<"V", "e", "c">>
      [] s = "i32" -> <<"i", "3", "2">>
      [] s = "core" -> <<"c", "o", "r", "e">>
      [] s = "fmt" -> <<"f", "m", "t">>
      [] s = "Debug" -> <<"D", "e", "b", "u", "g">>
      [] s = "marker" -> <<"m", "a", "r", "k", "e", "r">>
      [] s = "Send" -> <<"S", "e", "n", "d">>
      [] s = "a" -> <<"a">>
      [] s = "b" -> <<"b">>
      [] s = "m" -> <<"m">>
      [] s = "B" -> <<"B">>
      [] s = "C" -> <<"C">>
      [] s = "Tr" -> <<"T", "r">>
      [] s = "K" -> <<"K">>
      [] s = "X" -> <<"X">>
      [] s = "Map" -> <<"M", "a", "p">>
      [] s = "Fn" -> <<"F", "n">>
      [] s = "len" -> <<"l", "e", "n">>
      [] s = "l" -> <<"l">>
      [] s = "static" -> <<"s", "t", "a", "t", "i", "c">>
      [] s = "3" -> <<"3">>
      [] s = "m!()" -> <<"m", "!", "(", ")">>
      [] s = "{{closure}}" -> <<"{", "{", "c", "l", "o", "s", "u", "r", "e", "}", "}">>
      [] s = "?" -> <<"?">>
      [] s = "none" -> <<"n", "o", "n", "e">>

RECURSIVE Flatten(_, _)
\* texts[1] ++ sep ++ texts[2] ++ sep ++ ... (Vec::join)
Flatten(texts, sep) ==
    IF texts = <<>> THEN <<>>
    ELSE IF Len(texts) = 1 THEN texts[1]
    ELSE texts[1] \o sep \o Flatten(Tail(texts), sep)

\* "<error>": the literal of line 47 and the fallback of line 59
ErrorText == <<"<", "e", "r", "r", "o", "r", ">">>
\* "fn main() -> "
ScaffoldPrefix == <<"f", "n", " ", "m", "a", "i", "n", "(", ")", " ", "-", ">", " ">>
\* " {}\r\n"
ScaffoldSuffix == <<" ", "{", "}">> \o <<"CR", "LF">>
\* " {}" as the formatter prints it, before the line terminator
ScaffoldBody == <<" ", "{", "}">>
LineFeed == <<"LF">>
CarriageReturnLineFeed == <<"CR", "LF">>

RECURSIVE Render(_)
RECURSIVE RenderPath(_)

RenderReturn(output) ==
    IF output.kind = "Type" THEN <<" ", "-", ">", " ">> \o Render(output.ty) ELSE <<>>

RenderGenericArgument(arg) ==
    CASE arg.kind = "Type" -> Render(arg.ty)
      [] arg.kind = "AssocType" -> Chars(arg.ident) \o <<" ", "=", " ">> \o Render(arg.ty)
      [] arg.kind = "Lifetime" -> <<"'">> \o Chars(arg.lifetime)
      [] arg.kind = "Const" -> Chars(arg.expr)

RenderArguments(arguments) ==
    CASE arguments.kind = "None" -> <<>>
      [] arguments.kind = "AngleBracketed" ->
            <<"<">> \o Flatten([i \in DOMAIN arguments.args |->
                                   RenderGenericArgument(arguments.args[i])], <<",", " ">>)
                    \o <<">">>
      [] arguments.kind = "Parenthesized" ->
            <<"(">> \o Flatten([i \in DOMAIN arguments.inputs |->
                                   Render(arguments.inputs[i])], <<",", " ">>)
                    \o <<")">> \o RenderReturn(arguments.output)

RenderPath(path) ==
    (IF path.leading_colon THEN <<":", ":">> ELSE <<>>)
    \o Flatten([i \in DOMAIN path.segments |->
                   Chars(path.segments[i].ident) \o RenderArguments(path.segments[i].arguments)],
               <<":", ":">>)

RenderBounds(bounds) ==
    Flatten([i \in DOMAIN bounds |->
                IF bounds[i].kind = "Trait" THEN RenderPath(bounds[i].path)
                ELSE <<"'">> \o Chars(bounds[i].lifetime)], <<" ", "+", " ">>)

\* quote!(#ty) printed by the formatter: the source text of the type
Render(t) ==
    CASE t.kind = "Infer" -> <<"_">>
      [] t.kind = "Never" -> <<"!">>
      [] t.kind \in {"Macro", "Verbatim", "Other"} -> Chars(t.tokens)
      [] t.kind = "Array" -> <<"[">> \o Render(t.elem) \o <<";", " ">> \o Chars(t.len) \o <<"]">>
      [] t.kind = "Group" -> Render(t.elem)
      [] t.kind = "Paren" -> <<"(">> \o Render(t.elem) \o <<")">>
      [] t.kind = "Ptr" ->
            (IF t.mutability THEN <<"*", "m", "u", "t", " ">> ELSE <<"*", "c", "o", "n", "s", "t", " ">>) \o Render(t.elem)
      [] t.kind = "Slice" -> <<"[">> \o Render(t.elem) \o <<"]">>
      [] t.kind = "Reference" ->
            <<"&">>
            \o (IF t.lifetime = NoLifetime THEN <<>> ELSE <<"'">> \o Chars(t.lifetime) \o <<" ">>)
            \o (IF t.mutability THEN <<"m", "u", "t", " ">> ELSE <<>>)
            \o Render(t.elem)
      [] t.kind = "Path" ->
            IF t.qself.kind = "None" THEN RenderPath(t.path)
            ELSE LET n == Len(t.path.segments)
                     pos == IF t.qself.position < n THEN t.qself.position ELSE n
                 IN  <<"<">> \o Render(t.qself.ty)
                     \o (IF pos > 0 THEN <<" ", "a", "s", " ">> ELSE <<">">>)
                     \o RenderPath(Path(t.path.leading_colon, SubSeq(t.path.segments, 1, pos)))
                     \o (IF pos > 0 THEN <<">">> ELSE <<>>)
                     \o (IF pos < n /\ pos > 0 THEN <<":", ":">> ELSE <<>>)
                     \o RenderPath(Path(FALSE, SubSeq(t.path.segments, pos + 1, n)))
      [] t.kind = "BareFn" ->
            (IF t.unsafety THEN <<"u", "n", "s", "a", "f", "e", " ">> ELSE <<>>)
            \o (IF t.abi = "" THEN <<>> ELSE <<"e", "x", "t", "e", "r", "n", " ", "\"">> \o Chars(t.abi) \o <<"\"", " ">>)
            \o <<"f", "n", "(">>
            \o Flatten([i \in DOMAIN t.inputs |-> Render(t.inputs[i].ty)], <<",", " ">>)
            \o <<")">> \o RenderReturn(t.output)
      [] t.kind = "ImplTrait" -> <<"i", "m", "p", "l", " ">> \o RenderBounds(t.bounds)
      [] t.kind = "TraitObject" -> <<"d", "y", "n", " ">> \o RenderBounds(t.bounds)
      [] t.kind = "Tuple" ->
            <<"(">> \o Flatten([i \in DOMAIN t.elems |-> Render(t.elems[i])], <<",", " ">>)
                    \o (IF Len(t.elems) = 1 THEN <<",">> ELSE <<>>) \o <<")">>

-----------------------------------------------------------------------------
(* SpecCanon.                                                              *)

CacheIdle ==
    /\ cache = <<>>
    /\ heap = <<>>
    /\ pc = <<>>
    /\ cur = <<>>
    /\ eol = <<>>
    /\ runs = <<>>
    /\ returned = <<>>
    /\ last = <<>>

cacheVars == <<cache, heap, pc, cur, eol, runs, returned, last>>
canonVars == <<ty, out, phase>>

InitCanon ==
    /\ ty \in Trees
    /\ out = ty
    /\ phase = "input"
    /\ CacheIdle

\* truncate_type(&mut ty): the tree is replaced by its canonical form.
Truncate ==
    /\ phase = "input"
    /\ out' = truncate_type(ty)
    /\ phase' = "done"
    /\ UNCHANGED <<ty, cacheVars>>

NextCanon == Truncate

SpecCanon == InitCanon /\ [][NextCanon]_vars

-----------------------------------------------------------------------------
(* type_name and its thread-local cache.                                   *)

\* Execution contexts (threads); each owns one TYPE_NAME_CACHE.
Contexts == {"main", "worker"}

\* TypeId::of::<T>() of the types the program asks for.
TypeIds == {"Vec_i32", "dyn_Debug_Send", "closure"}

NoId == "none"

\* The reference of the literal "<error>" of line 47: static memory, not a leak.
StaticError == [site |-> "static", ctx |-> "none", id |-> "none", run |-> 0]

\* The reference Box::leak hands out: a fresh allocation, one per call that gets there.
Leaked(c, t, n) == [site |-> "leak", ctx |-> c, id |-> t, run |-> n]

NoRef == [site |-> "none", ctx |-> "none", id |-> "none", run |-> 0]

\* syn::parse_str::<Type>(std::any::type_name::<T>()):
\*   alloc::vec::Vec<i32>                           Ok
\*   dyn core::fmt::Debug + core::marker::Send      Ok
\*   demo::main::{{closure}}                        Err
parse_str(t) ==
    CASE t = "Vec_i32" ->
            [ok |-> TRUE,
             ty |-> TypePath(NoQSelf, Path(FALSE,
                        <<Segment("alloc", NoArguments), Segment("vec", NoArguments),
                          Segment("Vec", AngleBracketed(<<ArgType(Plain(FALSE, <<"i32">>))>>))>>))]
      [] t = "dyn_Debug_Send" ->
            [ok |-> TRUE,
             ty |-> TypeTraitObject(
                        <<BoundTrait(Path(FALSE, <<Segment("core", NoArguments),
                                                   Segment("fmt", NoArguments),
                                                   Segment("Debug", NoArguments)>>)),
                          BoundTrait(Path(FALSE, <<Segment("core", NoArguments),
                                                   Segment("marker", NoArguments),
                                                   Segment("Send", NoArguments)>>))>>)]
      [] t = "closure" -> [ok |-> FALSE]

\* RustFmt::default().format_tokens(quote!(fn main() -> #ty {})): the formatted
\* declaration and the platform's line terminator, or Err when the formatter fails.
format_tokens(t, fmt_ok, terminator) ==
    IF fmt_ok
    THEN [ok |-> TRUE, text |-> ScaffoldPrefix \o Render(t) \o ScaffoldBody \o terminator]
    ELSE [ok |-> FALSE]

\* .unwrap_or("<error>".to_string())
unwrap_or_error(result) == IF result.ok THEN result.text ELSE ErrorText

\* format_result[start..end]: a byte range of a String; panics unless start <= end <= len
slice(text, start, end) ==
    IF start <= end /\ end <= Len(text)
    THEN [panic |-> FALSE, text |-> SubSeq(text, start + 1, end)]
    ELSE [panic |-> TRUE]

\* let end = format_result.len() - const { " {}\r\n".len() };
\* (a usize: a negative difference overflows, and the slice panics on it)
slice_end(format_result) == Len(format_result) - Len(ScaffoldSuffix)

\* Mutant of type_name_internal: a parse failure does not return early; an
\* error-marker leaf is substituted and goes through truncate_type and the formatter.
type_name_internal_error_leaf(t, fmt_ok, terminator) ==
    LET parsed == parse_str(t)
        tree == IF parsed.ok THEN parsed.ty ELSE TypeOther
        canon == truncate_type(tree)
        format_result == unwrap_or_error(format_tokens(canon, fmt_ok, terminator))
        piece == slice(format_result, Len(ScaffoldPrefix), slice_end(format_result))
    IN  IF slice_end(format_result) < 0 \/ piece.panic
        THEN [kind |-> "panic", stages |-> <<"parse", "truncate", "format">>]
        ELSE [kind |-> "leak", stages |-> <<"parse", "truncate", "format">>,
              text |-> piece.text]

\* type_name_internal::<T>(): the static "<error>", a leaked string, or a panic;
\* `stages` lists the steps that ran before it returned or panicked.
type_name_internal(t, fmt_ok, terminator) ==
    LET parsed == parse_str(t) IN
    IF ~parsed.ok THEN [kind |-> "static", stages |-> <<"parse">>]
    ELSE LET canon == truncate_type(parsed.ty)
             format_result == unwrap_or_error(format_tokens(canon, fmt_ok, terminator))
             start == Len(ScaffoldPrefix)
             end == slice_end(format_result)
             piece == slice(format_result, start, end)
         IN  IF end < 0 \/ piece.panic
             THEN [kind |-> "panic", stages |-> <<"parse", "truncate", "format">>]
             ELSE [kind |-> "leak", stages |-> <<"parse", "truncate", "format">>,
                   text |-> piece.text]

RECURSIVE Count(_)
\* The number of pairs in a finite set of (context, TypeId, n) triples, weighted by n.
Count(S) ==
    IF S = {} THEN 0
    ELSE LET x == CHOOSE y \in S : TRUE IN x[3] + Count(S \ {x})

\* The entries of type_name_internal that ended in a panic so far: every entry that
\* neither is still running nor has inserted its result.
Panicked ==
    Count({ <<c, t, runs[c][t] - (IF t \in DOMAIN cache[c] \/ cur[c] = t THEN 1 ELSE 0)>> :
                c \in Contexts, t \in TypeIds })

\* The line terminators a formatter may emit.
Terminators == {LineFeed, CarriageReturnLineFeed}

\* type_name_internal is a pure function of the type and of what the formatter does:
\* its result for every TypeId, formatter outcome and line terminator.
results ==
    [t \in TypeIds, fmt_ok \in BOOLEAN, terminator \in Terminators |->
        type_name_internal(t, fmt_ok, terminator)]

\* What the formatter did in a lookup: "unused" when format_tokens was not reached.
Formatter(stages, fmt_ok) ==
    IF \E i \in DOMAIN stages : stages[i] = "format"
    THEN (IF fmt_ok THEN "ok" ELSE "failed")
    ELSE "unused"

CanonIdle ==
    /\ ty = TypeInfer
    /\ out = TypeInfer
    /\ phase = "off"

Init ==
    /\ CanonIdle
    /\ cache = [c \in Contexts |-> <<>>]
    /\ heap = (StaticError :> ErrorText)
    /\ pc = [c \in Contexts |-> "idle"]
    /\ cur = [c \in Contexts |-> NoId]
    /\ eol \in Terminators
    /\ runs = [c \in Contexts |-> [t \in TypeIds |-> 0]]
    /\ returned = [c \in Contexts |-> [t \in TypeIds |-> {}]]
    /\ last = [ctx |-> "none", id |-> NoId, kind |-> "none", ref |-> NoRef,
               stages |-> <<>>, fmt |-> "unused"]

\* Mutant of Hit: the occupied entry is taken out of the table (entry.remove()).
HitRemove(c, t) ==
    /\ pc[c] = "idle"
    /\ t \in DOMAIN cache[c]
    /\ last' = [ctx |-> c, id |-> t, kind |-> "hit", ref |-> cache[c][t],
                stages |-> <<>>, fmt |-> "unused"]
    /\ returned' = [returned EXCEPT ![c][t] = @ \cup {cache[c][t]}]
    /\ cache' = [cache EXCEPT ![c] = [u \in DOMAIN @ \ {t} |-> @[u]]]
    /\ UNCHANGED <<canonVars, heap, pc, cur, eol, runs>>

\* Entry::Occupied(entry) => *entry.get()
Hit(c, t) ==
    /\ pc[c] = "idle"
    /\ t \in DOMAIN cache[c]
    /\ last' = [ctx |-> c, id |-> t, kind |-> "hit", ref |-> cache[c][t],
                stages |-> <<>>, fmt |-> "unused"]
    /\ returned' = [returned EXCEPT ![c][t] = @ \cup {cache[c][t]}]
    /\ UNCHANGED <<canonVars, cache, heap, pc, cur, eol, runs>>

\* Mutant of Miss: the name is computed without looking at the entry first.
MissUnchecked(c, t) ==
    /\ pc[c] = "idle"
    /\ runs[c][t] <= MaxPanics
    /\ pc' = [pc EXCEPT ![c] = "internal"]
    /\ cur' = [cur EXCEPT ![c] = t]
    /\ runs' = [runs EXCEPT ![c][t] = @ + 1]
    /\ UNCHANGED <<canonVars, cache, heap, eol, returned, last>>

\* Entry::Vacant(entry) => ... type_name_internal::<T>() is entered, the table borrowed
Miss(c, t) ==
    /\ pc[c] = "idle"
    /\ t \notin DOMAIN cache[c]
    /\ runs[c][t] <= MaxPanics
    /\ pc' = [pc EXCEPT ![c] = "internal"]
    /\ cur' = [cur EXCEPT ![c] = t]
    /\ runs' = [runs EXCEPT ![c][t] = @ + 1]
    /\ UNCHANGED <<canonVars, cache, heap, eol, returned, last>>

\* Mutant of Insert: one table for the whole process, the entry goes into the table
\* of every context.
InsertShared(c, fmt_ok) ==
    /\ pc[c] = "internal"
    /\ LET t == cur[c]
           r == results[t, fmt_ok, eol]
           ref == IF r.kind = "static" THEN StaticError ELSE Leaked(c, t, runs[c][t])
       IN  /\ r.kind # "panic"
           /\ heap' = IF r.kind = "leak" THEN (ref :> r.text) @@ heap ELSE heap
           /\ cache' = [d \in Contexts |-> (t :> ref) @@ cache[d]]
           /\ returned' = [returned EXCEPT ![c][t] = @ \cup {ref}]
           /\ last' = [ctx |-> c, id |-> t, kind |-> "miss", ref |-> ref,
                       stages |-> r.stages, fmt |-> Formatter(r.stages, fmt_ok)]
    /\ pc' = [pc EXCEPT ![c] = "idle"]
    /\ cur' = [cur EXCEPT ![c] = NoId]
    /\ UNCHANGED <<canonVars, eol, runs>>

\* type_name_internal returns: *entry.insert(..) stores the reference and returns it
Insert(c, fmt_ok) ==
    /\ pc[c] = "internal"
    /\ LET t == cur[c]
           r == results[t, fmt_ok, eol]
           ref == IF r.kind = "static" THEN StaticError ELSE Leaked(c, t, runs[c][t])
       IN  /\ r.kind # "panic"
           /\ heap' = IF r.kind = "leak" THEN (ref :> r.text) @@ heap ELSE heap
           /\ cache' = [cache EXCEPT ![c] = (t :> ref) @@ @]
           /\ returned' = [returned EXCEPT ![c][t] = @ \cup {ref}]
           /\ last' = [ctx |-> c, id |-> t, kind |-> "miss", ref |-> ref,
                       stages |-> r.stages, fmt |-> Formatter(r.stages, fmt_ok)]
    /\ pc' = [pc EXCEPT ![c] = "idle"]
    /\ cur' = [cur EXCEPT ![c] = NoId]
    /\ UNCHANGED <<canonVars, eol, runs>>

\* Mutant of Unwind: the entry is filled before the name is computed, so a panic
\* leaves the error marker in the table.
UnwindPoisoned(c, fmt_ok) ==
    /\ pc[c] = "internal"
    /\ Panicked < MaxPanics
    /\ LET r == results[cur[c], fmt_ok, eol]
       IN  /\ r.kind = "panic"
           /\ last' = [ctx |-> c, id |-> cur[c], kind |-> "panic", ref |-> NoRef,
                       stages |-> r.stages, fmt |-> Formatter(r.stages, fmt_ok)]
    /\ cache' = [cache EXCEPT ![c] = (cur[c] :> StaticError) @@ @]
    /\ pc' = [pc EXCEPT ![c] = "idle"]
    /\ cur' = [cur EXCEPT ![c] = NoId]
    /\ UNCHANGED <<canonVars, heap, eol, runs, returned>>

\* type_name_internal panics: the unwinding drops the vacant entry and the borrow,
\* nothing is inserted and type_name does not return
Unwind(c, fmt_ok) ==
    /\ pc[c] = "internal"
    /\ Panicked < MaxPanics
    /\ LET r == results[cur[c], fmt_ok, eol]
       IN  /\ r.kind = "panic"
           /\ last' = [ctx |-> c, id |-> cur[c], kind |-> "panic", ref |-> NoRef,
                       stages |-> r.stages, fmt |-> Formatter(r.stages, fmt_ok)]
    /\ pc' = [pc EXCEPT ![c] = "idle"]
    /\ cur' = [cur EXCEPT ![c] = NoId]
    /\ UNCHANGED <<canonVars, cache, heap, eol, runs, returned>>

Next ==
    \/ \E c \in Contexts, t \in TypeIds : Hit(c, t)
    \/ \E c \in Contexts, t \in TypeIds : Miss(c, t)
    \/ \E c \in Contexts, fmt_ok \in BOOLEAN : Insert(c, fmt_ok)
    \/ \E c \in Contexts, fmt_ok \in BOOLEAN : Unwind(c, fmt_ok)

Spec == Init /\ [][Next]_vars

-----------------------------------------------------------------------------
(* Claims about type_name (specification Spec).                            *)

\* The canonical text of a type: its parsed descriptor, truncated and printed.
CanonicalText(t) == Render(truncate_type(parse_str(t).ty))

\* C1: whenever the formatter fails in a lookup, type_name returns a reference to
\* the text "<error>" and the lookup does not end in a panic.
C1_FormatFailureYieldsSentinel ==
    last.fmt = "failed" =>
        /\ last.kind = "miss"
        /\ last.ref \in DOMAIN heap
        /\ heap[last.ref] = ErrorText

\* C2: a lookup of a type whose descriptor does not parse returns exactly "<error>",
\* never panics, and on the miss only the parse step has run (neither truncate_type
\* nor the formatter).
C2_ParseFailureYieldsSentinel ==
    (last.id \in TypeIds /\ ~parse_str(last.id).ok) =>
        /\ last.kind \in {"hit", "miss"}
        /\ last.ref \in DOMAIN heap
        /\ heap[last.ref] = ErrorText
        /\ last.kind = "miss" => (last.stages = <<"parse">> /\ last.fmt = "unused")

\* C2 witness: the closure type was looked up, missed, and the lookup returned.
C2_Witness ==
    /\ last.id = "closure"
    /\ last.kind = "miss"
    /\ heap[last.ref] = ErrorText

\* C3: in one context every call of type_name for one TypeId returns the same
\* reference: the references returned so far are exactly the entry of the table, so
\* an entry that was returned once has not been evicted or replaced since.
C3_SameReference ==
    \A c \in Contexts, t \in TypeIds :
        /\ t \in DOMAIN cache[c] => returned[c][t] = {cache[c][t]}
        /\ t \notin DOMAIN cache[c] => returned[c][t] = {}

\* C3 witness: a hit on a leaked string in a table that holds other identities too.
C3_Witness ==
    /\ last.kind = "hit"
    /\ last.ref.site = "leak"
    /\ Cardinality(DOMAIN cache[last.ctx]) = Cardinality(TypeIds)
    /\ returned[last.ctx][last.id] = {last.ref}

\* C4: type_name_internal is entered only for an identity that has no entry: once
\* an identity is in a context's table, no later step enters type_name_internal for
\* it again, so a computation that succeeded is never repeated.
C4_ComputedOnce ==
    [][\A c \in Contexts, t \in TypeIds :
          t \in DOMAIN cache[c] => runs'[c][t] = runs[c][t]]_vars

\* C4 witness: a hit on an identity whose name was computed exactly once.
C4_Witness ==
    /\ last.kind = "hit"
    /\ last.ref.site = "leak"
    /\ runs[last.ctx][last.id] = 1

\* C10: when the formatter succeeds, the name type_name returns is exactly the
\* canonical text of the type, for either line terminator.
C10_ScaffoldStripped ==
    (last.kind = "miss" /\ last.fmt = "ok") =>
        heap[last.ref] = CanonicalText(last.id)

\* with_borrow_mut holds the RefCell's mutable borrow of a context's table for as long
\* as the closure runs, type_name_internal included.
Borrowed(c) == pc[c] = "internal"

\* What a context owns: its table and the bookkeeping of its lookups.
Private(c) == <<cache[c], runs[c], returned[c], pc[c], cur[c]>>

\* The step is one of context c: it enters or leaves type_name_internal there, or it
\* is a hit that type_name returned there.
StepOf(c) ==
    \/ pc'[c] # pc[c]
    \/ last' # last /\ last'.ctx = c /\ last'.kind = "hit"

\* Every entry of a context's table was computed in that context: the context entered
\* type_name_internal for it, and a leaked string in the table is one this context
\* leaked.  A hit returns the entry of the caller's own table.
OwnEntries ==
    /\ \A c \in Contexts : \A t \in DOMAIN cache[c] :
          /\ runs[c][t] >= 1
          /\ cache[c][t] = StaticError \/ (cache[c][t].site = "leak" /\ cache[c][t].ctx = c)
    /\ \A c \in Contexts, t \in TypeIds : returned[c][t] # {} => runs[c][t] >= 1
    /\ last.kind = "hit" => last.ref = cache[last.ctx][last.id]

\* C11: the contexts' tables are private under every interleaving: a step of one
\* context leaves the table and the lookup state of every other context as they were,
\* and every entry of a table was computed by a miss of the same context (so the
\* first lookup of an identity in a context is a miss that computes there, also when
\* another context holds a name for that identity already).
C11_PrivateTables ==
    /\ []OwnEntries
    /\ [][\A c \in Contexts :
            StepOf(c) => \A d \in Contexts \ {c} : Private(d)' = Private(d)]_vars

\* C11 witness: both contexts have computed the name of Vec<i32>, each once and each
\* into its own table; the worker's miss has just returned its own leaked string
\* while the main context is inside a lookup of another identity.
C11_Witness ==
    /\ last.ctx = "worker" /\ last.id = "Vec_i32" /\ last.kind = "miss"
    /\ runs["worker"]["Vec_i32"] = 1
    /\ last.ref = Leaked("worker", "Vec_i32", 1)
    /\ "Vec_i32" \in DOMAIN cache["main"]
    /\ cache["main"]["Vec_i32"] = Leaked("main", "Vec_i32", 1)
    /\ Borrowed("main") /\ cur["main"] = "dyn_Debug_Send"

\* The step is a lookup of context c for identity t that ends in a panic.
PanicOf(c, t) ==
    /\ Borrowed(c) /\ cur[c] = t
    /\ last'.kind = "panic" /\ last'.ctx = c /\ pc'[c] = "idle"

\* C14: a lookup that panics inside type_name_internal leaves every table as it was:
\* no entry for the identity is inserted, every existing entry keeps its value,
\* nothing is leaked or returned, and the table is no longer borrowed, so that the
\* next lookup of the identity in that context is a miss again.
C14_PanicLeavesCache ==
    /\ [](last.kind = "panic" =>
            (Borrowed(last.ctx) \/ last.id \notin DOMAIN cache[last.ctx]))
    /\ [][\A c \in Contexts, t \in TypeIds :
            PanicOf(c, t) =>
                /\ cache' = cache
                /\ heap' = heap
                /\ returned' = returned
                /\ t \notin DOMAIN cache'[c]
                /\ ~Borrowed(c)']_vars

\* C14 witness: a lookup of an identity panicked (type_name_internal was entered twice
\* for it, and only the second entry inserted); that second lookup was a miss again
\* and stored its own string, next to an entry of the table that was computed once.
C14_Witness ==
    /\ last.kind = "miss"
    /\ runs[last.ctx][last.id] = 2
    /\ last.ref = Leaked(last.ctx, last.id, 2)
    /\ cache[last.ctx][last.id] = last.ref
    /\ \E u \in DOMAIN cache[last.ctx] :
          u # last.id /\ runs[last.ctx][u] = 1

-----------------------------------------------------------------------------
(* Navigation in type trees, for the claims about the canonicalizer.       *)

\* The types inside one PathArguments, in source order.
ArgTypes(arguments) ==
    CASE arguments.kind = "AngleBracketed" ->
            LET IsType(arg) == arg.kind \in {"Type", "AssocType"}
                types == SelectSeq(arguments.args, IsType)
            IN  [i \in DOMAIN types |-> types[i].ty]
      [] arguments.kind = "Parenthesized" ->
            arguments.inputs
            \o (IF arguments.output.kind = "Type" THEN <<arguments.output.ty>> ELSE <<>>)
      [] OTHER -> <<>>

\* The types in the arguments of a path's final segment.
LastArgTypes(path) ==
    IF path.segments = <<>> THEN <<>>
    ELSE ArgTypes(path.segments[Len(path.segments)].arguments)

RECURSIVE SegmentTypes(_)
\* The types in the arguments of all the given segments.
SegmentTypes(segments) ==
    IF segments = <<>> THEN <<>>
    ELSE ArgTypes(Head(segments).arguments) \o SegmentTypes(Tail(segments))

RECURSIVE BoundTypes(_, _)
\* The types in the trait bounds' paths: of the final segments only, or of all segments.
BoundTypes(bounds, all) ==
    IF bounds = <<>> THEN <<>>
    ELSE (IF Head(bounds).kind # "Trait" THEN <<>>
          ELSE IF all THEN SegmentTypes(Head(bounds).path.segments)
          ELSE LastArgTypes(Head(bounds).path))
         \o BoundTypes(Tail(bounds), all)

\* The type of a qualified-self path (`<T as Trait>::Name`), if the node has one.
QSelfTypes(t) ==
    IF t.kind = "Path" /\ t.qself.kind = "Some" THEN <<t.qself.ty>> ELSE <<>>

\* The child types of a node into which truncate_type / truncate_path descend.
Visited(t) ==
    CASE t.kind \in {"Array", "Group", "Paren", "Ptr", "Slice", "Reference"} -> <<t.elem>>
      [] t.kind = "Tuple" -> t.elems
      [] t.kind = "BareFn" ->
            [i \in DOMAIN t.inputs |-> t.inputs[i].ty]
            \o (IF t.output.kind = "Type" THEN <<t.output.ty>> ELSE <<>>)
      [] t.kind = "Path" -> LastArgTypes(t.path)
      [] t.kind \in {"ImplTrait", "TraitObject"} -> BoundTypes(t.bounds, FALSE)
      [] OTHER -> <<>>

\* The child types of a node that are still children of the node after truncation:
\* all but those in the arguments of discarded path segments.
Kept(t) == QSelfTypes(t) \o Visited(t)

\* All child types of a node.
Children(t) ==
    CASE t.kind = "Path" -> QSelfTypes(t) \o SegmentTypes(t.path.segments)
      [] t.kind \in {"ImplTrait", "TraitObject"} -> BoundTypes(t.bounds, TRUE)
      [] OTHER -> Visited(t)

RECURSIVE Subtrees(_)
\* All type nodes of a tree, the root included.
Subtrees(t) ==
    {t} \cup UNION { Subtrees(Children(t)[k]) : k \in DOMAIN Children(t) }

\* The tree is one syn::parse_str can return for a descriptor: no path without
\* segments, no None-delimited group, no variant syn does not have yet.
Parseable(t) ==
    \A n \in Subtrees(t) :
        /\ n.kind \notin {"Group", "Other"}
        /\ n.kind = "Path" => n.path.segments # <<>>
        /\ n.kind \in {"ImplTrait", "TraitObject"} =>
              \A k \in DOMAIN n.bounds :
                  n.bounds[k].kind = "Trait" => n.bounds[k].path.segments # <<>>

\* `after` is `before` cut down to its final segment, without leading `::`.
IsFinalSegmentOf(after, before) ==
    /\ ~after.leading_colon
    /\ Len(after.segments) = 1
    /\ after.segments[1].ident = before.segments[Len(before.segments)].ident

-----------------------------------------------------------------------------
(* Claims about the canonicalizer (specification SpecCanon).               *)

RECURSIVE PathsTruncated(_, _)
\* Every Path node of `i` that is still in `o`, with two segments or more, has become
\* its final segment in `o`.
PathsTruncated(i, o) ==
    /\ o.kind = i.kind
    /\ (i.kind = "Path" /\ Len(i.path.segments) >= 2) => IsFinalSegmentOf(o.path, i.path)
    /\ Len(Kept(o)) = Len(Kept(i))
    /\ \A k \in DOMAIN Kept(i) : PathsTruncated(Kept(i)[k], Kept(o)[k])

\* C5: after canonicalization (of a tree the parser can return) every Path node with
\* two or more segments, at any nesting depth of the tree, consists of its original
\* final segment alone and has no leading-root marker.
C5_PathTruncation ==
    (phase = "done" /\ Parseable(ty)) => PathsTruncated(ty, out)

\* C6: when the input is a reference carrying a lifetime tag, no reference of the
\* canonical tree carries a lifetime tag: not the root, not a nested reference, not
\* one inside a generic-argument list or a trait-object bound list (a lifetime tag
\* being the annotation of a reference type).
C6_NoLifetimeTag ==
    (phase = "done" /\ Parseable(ty) /\ ty.kind = "Reference" /\ ty.lifetime # NoLifetime) =>
        \A n \in Subtrees(out) : n.kind = "Reference" => n.lifetime = NoLifetime

\* The number of elements of the list a node or a PathArguments carries.
ArgumentCount(arguments) ==
    CASE arguments.kind = "AngleBracketed" -> <<"angle", Len(arguments.args)>>
      [] arguments.kind = "Parenthesized" ->
            <<"paren", Len(arguments.inputs), arguments.output.kind>>
      [] OTHER -> <<"none">>

LastArgumentCount(path) ==
    IF path.segments = <<>> THEN <<"empty">>
    ELSE ArgumentCount(path.segments[Len(path.segments)].arguments)

\* The element counts at one node: tuple elements, function parameters (and whether
\* there is a return type), generic arguments of the final segment of each path.
Arity(t) ==
    CASE t.kind = "Tuple" -> <<Len(t.elems)>>
      [] t.kind = "BareFn" -> <<Len(t.inputs), t.output.kind>>
      [] t.kind = "Path" -> LastArgumentCount(t.path)
      [] t.kind \in {"ImplTrait", "TraitObject"} ->
            [k \in DOMAIN t.bounds |->
                IF t.bounds[k].kind = "Trait" THEN LastArgumentCount(t.bounds[k].path)
                ELSE <<"lifetime">>]
      [] OTHER -> <<>>

RECURSIVE ArityKept(_, _)
\* Every list of `i` that is still in `o` has the same number of elements there.
ArityKept(i, o) ==
    /\ o.kind = i.kind
    /\ Arity(o) = Arity(i)
    /\ Len(Kept(o)) = Len(Kept(i))
    /\ \A k \in DOMAIN Kept(i) : ArityKept(Kept(i)[k], Kept(o)[k])

\* Some segment before the final one carries a generic argument list.
CarriesInnerList(path) ==
    \E k \in DOMAIN path.segments :
        k < Len(path.segments) /\ path.segments[k].arguments.kind # "None"

RECURSIVE DropsList(_)
\* Truncation of `i` discards a path segment that carries a generic argument list.
DropsList(i) ==
    \/ i.kind = "Path" /\ CarriesInnerList(i.path)
    \/ /\ i.kind \in {"ImplTrait", "TraitObject"}
       /\ \E k \in DOMAIN i.bounds :
              i.bounds[k].kind = "Trait" /\ CarriesInnerList(i.bounds[k].path)
    \/ \E k \in DOMAIN Visited(i) : DropsList(Visited(i)[k])

\* C7 as stated: every tuple, function signature and generic argument list of the
\* input is in the canonical output with the same element count; canonicalization
\* removes no tuple element, function parameter or generic argument.
C7_ArityPreserved ==
    (phase = "done" /\ Parseable(ty)) => (ArityKept(ty, out) /\ ~DropsList(ty))

\* C7 as amended: every tuple, function signature and generic argument list of the
\* input that is not attached to (or nested below) a discarded non-final path segment
\* is in the canonical output with the same element count; the generic argument
\* lists of discarded segments go with their segments.
C7_ArityPreservedKept ==
    phase = "done" => ArityKept(ty, out)

\* C7 witness: a tuple, a function signature and a generic argument list of several
\* elements that went through truncation.
C7_Witness ==
    /\ phase = "done"
    /\ ty = Wrap("GenericAssoc", Wrap("FnInput", TypeTuple(<<>>)))
    /\ out # ty
    /\ Len(out.path.segments[1].arguments.args) = 4
    /\ Len(out.path.segments[1].arguments.args[3].ty.inputs) = 2

\* A path of two segments or more is nested in the tree, below the root.
HasNestedPath(t) ==
    \E k \in DOMAIN Children(t) :
        \E n \in Subtrees(Children(t)[k]) : n.kind = "Path" /\ Len(n.path.segments) >= 2

\* C8: when a multi-segment path is nested in the tree (the tree being one the
\* parser can return), every Path node of the canonical tree, at every level, has
\* exactly one segment.
C8_EveryLevelTruncated ==
    (phase = "done" /\ Parseable(ty) /\ HasNestedPath(ty)) =>
        \A n \in Subtrees(out) : n.kind = "Path" => Len(n.path.segments) = 1

\* The bounds `after` are the bounds `before`, in the same order and number, every
\* trait bound cut down to the final segment of its path.
BoundsTruncated(after, before) ==
    /\ Len(after) = Len(before)
    /\ \A k \in DOMAIN before :
          /\ after[k].kind = before[k].kind
          /\ before[k].kind = "Trait" =>
                IF before[k].path.segments = <<>> THEN after[k].path = Path(FALSE, <<>>)
                ELSE IsFinalSegmentOf(after[k].path, before[k].path)
          /\ before[k].kind # "Trait" => after[k] = before[k]

RECURSIVE BoundsTruncatedAt(_, _)
\* BoundsTruncated at the node and at every node the canonicalizer visits below it.
BoundsTruncatedAt(i, o) ==
    /\ o.kind = i.kind
    /\ i.kind \in {"ImplTrait", "TraitObject"} => BoundsTruncated(o.bounds, i.bounds)
    /\ Len(Visited(o)) = Len(Visited(i))
    /\ \A k \in DOMAIN Visited(i) : BoundsTruncatedAt(Visited(i)[k], Visited(o)[k])

\* C9: canonicalization of a trait-object or impl-trait node (the tree itself, or a
\* node the canonicalizer visits in it) truncates the path of every trait bound,
\* primary or marker, to its final segment and keeps the bounds' order and count.
C9_BoundsTruncated ==
    phase = "done" => BoundsTruncatedAt(ty, out)

\* C9 witness: `dyn a::Tr + 'l + ::b::m::Send` became `dyn Tr + 'l + Send`.
C9_Witness ==
    /\ phase = "done"
    /\ ty.kind = "TraitObject"
    /\ Len(ty.bounds) = 3
    /\ Len(ty.bounds[3].path.segments) = 3
    /\ Render(out) = <<"d", "y", "n", " ", "T", "r", " ", "+", " ", "'", "l",
                       " ", "+", " ", "S", "e", "n", "d">>

\* The variants truncate_type has a match arm for; every other variant falls into
\* the arm `_ => {}`.
Recognized ==
    {"Infer", "Macro", "Never", "Verbatim", "Array", "Group", "Paren", "Ptr", "Slice",
     "Reference", "Path", "BareFn", "ImplTrait", "TraitObject", "Tuple"}

RECURSIVE TotalAt(_, _)
\* truncate_type produced a node of the same variant for `i` and for every node it
\* descends into; a node of an unrecognized variant is the same as before; a Path
\* node without segments has no segments and no leading `::` afterwards.
TotalAt(i, o) ==
    /\ o.kind = i.kind
    /\ i.kind \notin Recognized => o = i
    /\ (i.kind = "Path" /\ i.path.segments = <<>>) =>
          (o.path = Path(FALSE, <<>>) /\ o.qself = i.qself)
    /\ Len(Visited(o)) = Len(Visited(i))
    /\ \A k \in DOMAIN Visited(i) : TotalAt(Visited(i)[k], Visited(o)[k])

\* C12: truncate_type returns a tree for every input tree, malformed ones included:
\* nodes of unrecognized variants are left as they are, and a Path node without
\* segments becomes a Path without segments and without leading-root marker.
C12_Total ==
    phase = "done" => TotalAt(ty, out)

\* C12 witness: `[::]`, a slice of the empty path with a leading `::`, became a slice
\* of the empty path.
C12_Witness ==
    /\ phase = "done"
    /\ ty = TypeSlice(TypePath(NoQSelf, Path(TRUE, <<>>)))
    /\ out = TypeSlice(TypePath(NoQSelf, Path(FALSE, <<>>)))

\* The arguments of a path's final segment.
FinalArguments(path) ==
    IF path.segments = <<>> THEN NoArguments
    ELSE path.segments[Len(path.segments)].arguments

\* The argument list `oa` is `ia` with the same delimiters, as many arguments of the
\* same kinds in the same places, the lifetimes, constants and binding names as before.
ArgumentsFrame(ia, oa) ==
    /\ oa.kind = ia.kind
    /\ ia.kind = "AngleBracketed" =>
          /\ Len(oa.args) = Len(ia.args)
          /\ \A k \in DOMAIN ia.args :
                /\ oa.args[k].kind = ia.args[k].kind
                /\ ia.args[k].kind \notin {"Type", "AssocType"} => oa.args[k] = ia.args[k]
                /\ ia.args[k].kind = "AssocType" => oa.args[k].ident = ia.args[k].ident
    /\ ia.kind = "Parenthesized" =>
          /\ Len(oa.inputs) = Len(ia.inputs)
          /\ oa.output.kind = ia.output.kind

\* The bounds `ob` are `ib`: as many, of the same kinds in the same places, the
\* lifetime bounds as before, the trait bounds with the argument lists' frame.
BoundsFrame(ib, ob) ==
    /\ Len(ob) = Len(ib)
    /\ \A k \in DOMAIN ib :
          /\ ob[k].kind = ib[k].kind
          /\ ib[k].kind # "Trait" => ob[k] = ib[k]
          /\ ib[k].kind = "Trait" =>
                ArgumentsFrame(FinalArguments(ib[k].path), FinalArguments(ob[k].path))

\* What a node carries besides path segments, leading `::` and a reference's lifetime.
NodeFrame(i, o) ==
    CASE i.kind \in {"Infer", "Never", "Macro", "Verbatim"} -> o = i
      [] i.kind = "Array" -> o.len = i.len
      [] i.kind \in {"Ptr", "Reference"} -> o.mutability = i.mutability
      [] i.kind = "BareFn" ->
            /\ o.unsafety = i.unsafety
            /\ o.abi = i.abi
            /\ Len(o.inputs) = Len(i.inputs)
            /\ o.output.kind = i.output.kind
      [] i.kind = "Tuple" -> Len(o.elems) = Len(i.elems)
      [] i.kind = "Path" ->
            /\ o.qself = i.qself
            /\ ArgumentsFrame(FinalArguments(i.path), FinalArguments(o.path))
      [] i.kind \in {"ImplTrait", "TraitObject"} -> BoundsFrame(i.bounds, o.bounds)
      [] OTHER -> TRUE

RECURSIVE FrameKept(_, _)
\* NodeFrame at the node and, in order, at every child the canonicalizer descends into.
FrameKept(i, o) ==
    /\ o.kind = i.kind
    /\ NodeFrame(i, o)
    /\ Len(Visited(o)) = Len(Visited(i))
    /\ \A k \in DOMAIN Visited(i) : FrameKept(Visited(i)[k], Visited(o)[k])

\* C13: canonicalization changes path segments, leading-root markers and references'
\* lifetime tags and nothing else: every node keeps its variant, references and raw
\* pointers their mutability, arrays their length, function signatures their unsafe
\* and calling-convention qualifiers, tuples, parameter lists and generic argument
\* lists the order of their elements, and the terminal leaves (inferred placeholder,
\* never type, macro, verbatim) stay as they are.
C13_FrameUnchanged ==
    phase = "done" => FrameKept(ty, out)

\* C13 witness: `&'a mut unsafe fn(::a::b::C, a::B)` became `&mut unsafe fn(C, B)`.
C13_Witness ==
    /\ phase = "done"
    /\ ty = TypeReference("a", TRUE,
                TypeBareFn(TRUE, "", <<BareFnArg(Plain(TRUE, <<"a", "b", "C">>)),
                                       BareFnArg(Plain(FALSE, <<"a", "B">>))>>,
                           DefaultReturn))
    /\ out = TypeReference(NoLifetime, TRUE,
                TypeBareFn(TRUE, "", <<BareFnArg(Plain(FALSE, <<"C">>)),
                                       BareFnArg(Plain(FALSE, <<"B">>))>>,
                           DefaultReturn))

====
